---- MODULE Spec2Model ----
(***************************************************************************)
(* pirevision: decoding of Raspberry Pi revision codes (pirevision.c).     *)
(*                                                                         *)
(* A revcode_32 is modelled as a vector of 32 bits (bit 0 is the least     *)
(* significant one), because the codes use bit 31 and the checker's        *)
(* integers are signed 32-bit.  Shifts, masks and ors are computed on the  *)
(* bits; small field values are converted to naturals with Val.            *)
(* C strings are TLA+ strings; the char buffers the program fills with     *)
(* sprintf are sequences of one-character strings.                         *)
(***************************************************************************)
EXTENDS Integers, Sequences, FiniteSets, TLC

(***************************************************************************)
(* Bounds of the explored input space.                                     *)
(***************************************************************************)
\* Old-style codes 0..MaxLegacyCode are explored (the table has 22 entries).
MaxLegacyCode == 24

(***************************************************************************)
(* 32-bit words.                                                           *)
(***************************************************************************)
BitIdx == 0..31

\* The word whose value is the natural n (n < 2^31).
Word(n) == [i \in BitIdx |-> IF i = 31 THEN 0 ELSE (n \div (2^i)) % 2]

\* x >> n
Shr(x, n) == [i \in BitIdx |-> IF i + n <= 31 THEN x[i + n] ELSE 0]

\* x << n
Shl(x, n) == [i \in BitIdx |-> IF i >= n THEN x[i - n] ELSE 0]

\* x & y
BitAnd(x, y) == [i \in BitIdx |-> x[i] * y[i]]

\* x | y
BitOr(x, y) == [i \in BitIdx |-> IF x[i] = 1 \/ y[i] = 1 THEN 1 ELSE 0]

RECURSIVE ValUpTo(_, _)
ValUpTo(x, i) == IF i < 0 THEN 0 ELSE x[i] * (2^i) + ValUpTo(x, i - 1)

\* Value of the low 31 bits of x.
Val(x) == ValUpTo(x, 30)

\* Unsigned comparison x < n of a 32-bit word with a natural n < 2^31.
ULess(x, n) == x[31] = 0 /\ Val(x) < n

\* The word written as eight hexadecimal digits, most significant first.
Hex(d) == [i \in BitIdx |-> (d[8 - (i \div 4)] \div (2^(i % 4))) % 2]

\* x with bit b inverted.
FlipBit(x, b) == [i \in BitIdx |-> IF i = b THEN 1 - x[i] ELSE x[i]]

(***************************************************************************)
(* Macros, lines 27-61.                                                    *)
(***************************************************************************)
SONY_UK    == Shl(Word(0), 16)
EGOMAN     == Shl(Word(1), 16)
EMBEST     == Shl(Word(2), 16)
SONY_JAPAN == Shl(Word(3), 16)
STADIUM    == Shl(Word(5), 16)
QISDA      == Shl(Word(15), 16)

MEM_256M == Shl(Word(0), 20)
MEM_512M == Shl(Word(1), 20)
MEM_1G   == Shl(Word(2), 20)
MEM_2G   == Shl(Word(3), 20)
MEM_4G   == Shl(Word(4), 20)
MEM_8G   == Shl(Word(5), 20)

MODEL_A     == Shl(Word(0), 4)
MODEL_B     == Shl(Word(1), 4)
MODEL_APLUS == Shl(Word(2), 4)
MODEL_BPLUS == Shl(Word(3), 4)
MODEL_CM1   == Shl(Word(6), 4)

REV_1_0 == Shl(Word(0), 0)
REV_1_1 == Shl(Word(0), 0)
REV_1_2 == Shl(Word(0), 0)
REV_1_3 == Shl(Word(0), 0)
REV_1_4 == Shl(Word(0), 0)
REV_1_5 == Shl(Word(0), 0)
REV_2_0 == Shl(Word(15), 0)

OLD_REV_NOT_VALID == [i \in BitIdx |-> 1]

\* ARRAY_CNT(a): TLA+ sequences are indexed from 1, C arrays from 0.
ARRAY_CNT(a) == Len(a)

\* The C null pointer passed as invalid_index_str.
NULL == "<NULL>"

(***************************************************************************)
(* Lookup with fallback, lines 81-118.                                     *)
(***************************************************************************)
lut_to_str_with_invalid_no_substitute(lut, lut_count, index, invalid_index, invalid_index_str) ==
    IF index < lut_count THEN lut[index + 1]
    ELSE "???"

lut_to_str_with_invalid(lut, lut_count, index, invalid_index, invalid_index_str) ==
    IF index < lut_count THEN lut[index + 1]
    ELSE IF invalid_index_str # NULL /\ index = invalid_index THEN invalid_index_str
    ELSE "???"

lut_to_str(lut, lut_count, index) ==
    lut_to_str_with_invalid(lut, lut_count, index, 0, NULL)

(***************************************************************************)
(* Permission flags, lines 120-177.                                        *)
(***************************************************************************)
overvoltage_allowed(revision_code) ==
    Val(BitAnd(Shr(revision_code, 31), Word(1))) = 0

overvoltage_allowed_str(revision_code) ==
    IF overvoltage_allowed(revision_code) THEN "Allowed" ELSE "Disallowed"

otp_programming_allowed(revision_code) ==
    Val(BitAnd(Shr(revision_code, 30), Word(1))) = 0

otp_reading_allowed(revision_code) ==
    Val(BitAnd(Shr(revision_code, 29), Word(1))) = 0

otp_programming_allowed_str(revision_code) ==
    IF otp_programming_allowed(revision_code) THEN "Allowed" ELSE "Disallowed"

otp_reading_allowed_str(revision_code) ==
    IF otp_reading_allowed(revision_code) THEN "Allowed" ELSE "Disallowed"

warranty_intact_positive(revision_code) ==
    Val(BitAnd(Shr(revision_code, 25), Word(1))) = 1

warranty_intact(revision_code) ==
    Val(BitAnd(Shr(revision_code, 25), Word(1))) = 0

warranty_intact_str(revision_code) ==
    IF warranty_intact(revision_code) THEN "Intact" ELSE "Voided"

revision_new_style(revision_code) ==
    Val(BitAnd(Shr(revision_code, 23), Word(1))) = 1

(***************************************************************************)
(* Board type, lines 179-214.                                              *)
(***************************************************************************)
type_index(revision_code) == Val(BitAnd(Shr(revision_code, 4), Word(255)))

type_map ==
    << "A", "B", "A+", "B+", "2B", "Alpha", "CM1", "0x07", "3B", "Zero",
       "CM3", "0x0B", "Zero W", "3B+", "3A+", "Internal use only", "CM3+",
       "4B", "Zero 2 W", "400", "CM4", "CM4S" >>

type_str(revision_code) ==
    lut_to_str(type_map, ARRAY_CNT(type_map), type_index(revision_code))

(***************************************************************************)
(* Memory size, lines 216-297.                                             *)
(***************************************************************************)
physical_memory_index(revision_code) ==
    Val(BitAnd(Shr(revision_code, 20), Word(7)))

mem_mbytes_map == << 256, 512, 1 * 1024, 2 * 1024, 4 * 1024, 8 * 1024 >>

\* What a read of the word behind mem_mbytes_map can yield.  The C standard
\* leaves the read undefined; the word is whatever the linker placed there.
\* The values are representatives of every branch of physical_memory_str.
OutOfBoundsWords ==
    { 0, 1, 1023, 1024, 2047, 9999 * 1024 + 1023, 10000 * 1024, 2147483647 }

\* The index at which physical_memory_mbytes reads mem_mbytes_map for the
\* code, -1 when the guard of line 245 skips the read.
mem_mbytes_map_read(revision_code) ==
    LET index == physical_memory_index(revision_code)
    IN  IF index > ARRAY_CNT(mem_mbytes_map) THEN -1 ELSE index

\* The set of values physical_memory_mbytes can return for the code.
physical_memory_mbytes(revision_code) ==
    LET index == physical_memory_index(revision_code)
    IN  IF index > ARRAY_CNT(mem_mbytes_map) THEN { 0 }
        ELSE IF index < ARRAY_CNT(mem_mbytes_map) THEN { mem_mbytes_map[index + 1] }
        ELSE OutOfBoundsWords

DecDigit == << "0", "1", "2", "3", "4", "5", "6", "7", "8", "9" >>

\* sprintf("%d", n) for 0 <= n < 2^31: the decimal digits, no padding.
RECURSIVE sprintf_d(_)
sprintf_d(n) ==
    IF n < 10 THEN << DecDigit[n + 1] >>
    ELSE Append(sprintf_d(n \div 10), DecDigit[(n % 10) + 1])

\* strncpy(result, src, n) followed by result[n] = '\0'.
strncpy(src, n) == IF Len(src) <= n THEN src ELSE SubSeq(src, 1, n)

\* Lines 278-291: the content of result_str for a megabyte count.
format_mega_bytes_gt(mega_bytes) ==
    IF mega_bytes > 1024
    THEN LET giga_bytes == mega_bytes \div (2^10)
         IN  IF giga_bytes <= 9999 THEN sprintf_d(giga_bytes) \o << "G", "B" >>
             ELSE << >>
    ELSE sprintf_d(mega_bytes) \o << "M", "B" >>

format_mega_bytes(mega_bytes) ==
    IF mega_bytes >= 1024
    THEN LET giga_bytes == mega_bytes \div (2^10)
         IN  IF giga_bytes <= 9999 THEN sprintf_d(giga_bytes) \o << "G", "B" >>
             ELSE << >>
    ELSE sprintf_d(mega_bytes) \o << "M", "B" >>

\* physical_memory_str for the megabyte count physical_memory_mbytes returned.
physical_memory_str_empty_zero(mega_bytes, result_size) ==
    IF mega_bytes = 0 THEN << >>
    ELSE strncpy(format_mega_bytes(mega_bytes), result_size - 1)

physical_memory_str(mega_bytes, result_size) ==
    strncpy(format_mega_bytes(mega_bytes), result_size - 1)

\* A char buffer read as a C string.
RECURSIVE CStr(_)
CStr(buf) == IF buf = << >> THEN "" ELSE buf[1] \o CStr(Tail(buf))

(***************************************************************************)
(* Processor, manufacturer, hardware revision, lines 299-376.              *)
(***************************************************************************)
processor_index_16(revision_code) ==
    Val(BitAnd(Shr(revision_code, 16), Word(15)))

processor_index(revision_code) ==
    Val(BitAnd(Shr(revision_code, 12), Word(15)))

processor_map == << "BCM2835", "BCM2836", "BCM2837", "BCM2711" >>

processor_str(revision_code) ==
    lut_to_str(processor_map, ARRAY_CNT(processor_map),
               processor_index(revision_code))

manufacturer_index(revision_code) ==
    Val(BitAnd(Shr(revision_code, 16), Word(15)))

manufacturer_map ==
    << "Sony UK", "Egoman", "Embest", "Sony Japan", "Embest", "Stadium" >>

manufacturer_str(revision_code) ==
    lut_to_str_with_invalid(manufacturer_map, ARRAY_CNT(manufacturer_map),
                            manufacturer_index(revision_code),
                            Val(Shr(QISDA, 16)), "Qisda")

revision_index(revision_code) == Val(BitAnd(Shr(revision_code, 0), Word(15)))

revision_map == << "1.0", "1.1", "1.2", "1.3", "1.4", "1.5" >>

revision_str(revision_code) ==
    lut_to_str_with_invalid(revision_map, ARRAY_CNT(revision_map),
                            revision_index(revision_code),
                            Val(Shr(REV_2_0, 0)), "2.0")

(***************************************************************************)
(* Old style to new style, lines 378-421.                                  *)
(***************************************************************************)
old_revision_map_000a ==
    << OLD_REV_NOT_VALID,
       OLD_REV_NOT_VALID,
       BitOr(BitOr(BitOr(MODEL_B, REV_1_0), MEM_256M), EGOMAN),
       BitOr(BitOr(BitOr(MODEL_B, REV_1_0), MEM_256M), EGOMAN),
       BitOr(BitOr(BitOr(MODEL_B, REV_2_0), MEM_256M), SONY_UK),
       BitOr(BitOr(BitOr(MODEL_B, REV_2_0), MEM_256M), QISDA),
       BitOr(BitOr(BitOr(MODEL_B, REV_2_0), MEM_256M), EGOMAN),
       BitOr(BitOr(BitOr(MODEL_A, REV_2_0), MEM_256M), EGOMAN),
       BitOr(BitOr(BitOr(MODEL_A, REV_2_0), MEM_256M), SONY_UK),
       BitOr(BitOr(BitOr(MODEL_A, REV_2_0), MEM_256M), QISDA),
       BitOr(BitOr(BitOr(MODEL_A, REV_2_0), MEM_256M), QISDA),
       OLD_REV_NOT_VALID,
       OLD_REV_NOT_VALID,
       BitOr(BitOr(BitOr(MODEL_B, REV_2_0), MEM_512M), EGOMAN),
       BitOr(BitOr(BitOr(MODEL_B, REV_2_0), MEM_512M), SONY_UK),
       BitOr(BitOr(BitOr(MODEL_B, REV_2_0), MEM_512M), EGOMAN),
       BitOr(BitOr(BitOr(MODEL_BPLUS, REV_1_2), MEM_512M), SONY_UK),
       BitOr(BitOr(BitOr(MODEL_CM1, REV_1_0), MEM_512M), SONY_UK),
       BitOr(BitOr(BitOr(MODEL_APLUS, REV_1_1), MEM_256M), SONY_UK),
       BitOr(BitOr(BitOr(MODEL_BPLUS, REV_1_2), MEM_512M), EMBEST),
       BitOr(BitOr(BitOr(MODEL_CM1, REV_1_0), MEM_512M), EMBEST),
       BitOr(BitOr(BitOr(MODEL_APLUS, REV_1_1), MEM_256M), EMBEST) >>

\* static int old_revision_map[]: the entries are stored as int and read back
\* as revcode_32, which keeps the 32 bits (0xFFFFFFFF is stored as -1).
old_revision_map ==
    << OLD_REV_NOT_VALID,
       OLD_REV_NOT_VALID,
       BitOr(BitOr(BitOr(MODEL_B, REV_1_0), MEM_256M), EGOMAN),
       BitOr(BitOr(BitOr(MODEL_B, REV_1_0), MEM_256M), EGOMAN),
       BitOr(BitOr(BitOr(MODEL_B, REV_2_0), MEM_256M), SONY_UK),
       BitOr(BitOr(BitOr(MODEL_B, REV_2_0), MEM_256M), QISDA),
       BitOr(BitOr(BitOr(MODEL_B, REV_2_0), MEM_256M), EGOMAN),
       BitOr(BitOr(BitOr(MODEL_A, REV_2_0), MEM_256M), EGOMAN),
       BitOr(BitOr(BitOr(MODEL_A, REV_2_0), MEM_256M), SONY_UK),
       BitOr(BitOr(BitOr(MODEL_A, REV_2_0), MEM_256M), QISDA),
       OLD_REV_NOT_VALID,
       OLD_REV_NOT_VALID,
       OLD_REV_NOT_VALID,
       BitOr(BitOr(BitOr(MODEL_B, REV_2_0), MEM_512M), EGOMAN),
       BitOr(BitOr(BitOr(MODEL_B, REV_2_0), MEM_512M), SONY_UK),
       BitOr(BitOr(BitOr(MODEL_B, REV_2_0), MEM_512M), EGOMAN),
       BitOr(BitOr(BitOr(MODEL_BPLUS, REV_1_2), MEM_512M), SONY_UK),
       BitOr(BitOr(BitOr(MODEL_CM1, REV_1_0), MEM_512M), SONY_UK),
       BitOr(BitOr(BitOr(MODEL_APLUS, REV_1_1), MEM_256M), SONY_UK),
       BitOr(BitOr(BitOr(MODEL_BPLUS, REV_1_2), MEM_512M), EMBEST),
       BitOr(BitOr(BitOr(MODEL_CM1, REV_1_0), MEM_512M), EMBEST),
       BitOr(BitOr(BitOr(MODEL_APLUS, REV_1_1), MEM_256M), EMBEST) >>

\* The result of map_old_to_new: failed is TRUE when it calls
\* exit(EXIT_FAILURE), otherwise code is the value it returns.
map_old_to_new_check_after(revision_code) ==
    LET new_revision_code ==
            IF ~revision_new_style(revision_code)
            THEN IF ULess(revision_code, ARRAY_CNT(old_revision_map))
                 THEN old_revision_map[Val(revision_code) + 1]
                 ELSE OLD_REV_NOT_VALID
            ELSE revision_code
    IN  [ failed |-> new_revision_code = OLD_REV_NOT_VALID,
          code   |-> new_revision_code ]

map_old_to_new(revision_code) ==
    IF ~revision_new_style(revision_code)
    THEN LET new_revision_code ==
                 IF ULess(revision_code, ARRAY_CNT(old_revision_map))
                 THEN old_revision_map[Val(revision_code) + 1]
                 ELSE OLD_REV_NOT_VALID
         IN  [ failed |-> new_revision_code = OLD_REV_NOT_VALID,
               code   |-> new_revision_code ]
    ELSE [ failed |-> FALSE, code |-> revision_code ]

(***************************************************************************)
(* Renderers, lines 423-502.                                               *)
(***************************************************************************)
HexDigit ==
    << "0", "1", "2", "3", "4", "5", "6", "7",
       "8", "9", "A", "B", "C", "D", "E", "F" >>

\* The k-th hexadecimal digit of x (k = 0 for the least significant).
Nibble(x, k) == x[4 * k] + 2 * x[4 * k + 1] + 4 * x[4 * k + 2] + 8 * x[4 * k + 3]

\* sprintf("%0X", x): upper-case hexadecimal digits, no leading zeros.
RECURSIVE sprintf_X_from(_, _)
sprintf_X_from(x, k) ==
    IF k = 0 THEN HexDigit[Nibble(x, 0) + 1]
    ELSE HexDigit[Nibble(x, k) + 1] \o sprintf_X_from(x, k - 1)

sprintf_X(x) ==
    LET used == { k \in 0..7 : Nibble(x, k) # 0 }
        top  == IF used = { } THEN 0 ELSE CHOOSE k \in used : \A j \in used : j <= k
    IN  sprintf_X_from(x, top)

\* One printf call: the format used, its label or key, its value and, for
\* the JSON formats, the separator that ends the line.
Line(fmt, label, value, sep) ==
    [ fmt |-> fmt, label |-> label, value |-> value, sep |-> sep ]

bool_json(value) == IF value THEN "true" ELSE "false"

\* Lines 426: printed before the code is mapped.
text_header_after_map(revision_code) == << >>

text_header(revision_code) ==
    << Line("header", "Revision code", "0x" \o sprintf_X(revision_code), "") >>

\* Lines 430-450 of print_revision_text, for the mapped code and the
\* megabyte count physical_memory_mbytes returned.
text_fields_always_processor(code, mbytes) ==
    LET new_style == revision_new_style(code)
    IN  << Line("field", "Style", IF new_style THEN "New" ELSE "Old", "") >>
        \o (IF new_style
            THEN << Line("field", "Overvoltage", overvoltage_allowed_str(code), ""),
                    Line("field", "OTP Programming", otp_programming_allowed_str(code), ""),
                    Line("field", "OTP Reading", otp_reading_allowed_str(code), ""),
                    Line("field", "Warranty", warranty_intact_str(code), "") >>
            ELSE << >>)
        \o << Line("field", "Type/Model", type_str(code), ""),
               Line("field", "Revision", revision_str(code), "") >>
        \o << Line("field", "Processor/SOC", processor_str(code), "") >>
        \o << Line("field", "Memory", CStr(physical_memory_str(mbytes, 8)), ""),
               Line("field", "Manufacturer", manufacturer_str(code), "") >>

text_fields(code, mbytes) ==
    LET new_style == revision_new_style(code)
    IN  << Line("field", "Style", IF new_style THEN "New" ELSE "Old", "") >>
        \o (IF new_style
            THEN << Line("field", "Overvoltage", overvoltage_allowed_str(code), ""),
                    Line("field", "OTP Programming", otp_programming_allowed_str(code), ""),
                    Line("field", "OTP Reading", otp_reading_allowed_str(code), ""),
                    Line("field", "Warranty", warranty_intact_str(code), "") >>
            ELSE << >>)
        \o << Line("field", "Type/Model", type_str(code), ""),
               Line("field", "Revision", revision_str(code), "") >>
        \o (IF new_style
            THEN << Line("field", "Processor/SOC", processor_str(code), "") >>
            ELSE << >>)
        \o << Line("field", "Memory", CStr(physical_memory_str(mbytes, 8)), ""),
               Line("field", "Manufacturer", manufacturer_str(code), "") >>

\* Lines 470-500 of print_revision_json.
json_fields(revision_code, code, mbytes) ==
    LET new_style == revision_new_style(code)
    IN  << Line("brace", "{", "", ""),
           Line("str_field", "revision_code", "0x" \o sprintf_X(revision_code), ","),
           Line("str_field", "style", IF new_style THEN "new" ELSE "old", ",") >>
        \o (IF new_style
            THEN << Line("field", "overvoltage_allowed",
                         bool_json(overvoltage_allowed(code)), ","),
                    Line("field", "otp_programming_allowed",
                         bool_json(otp_programming_allowed(code)), ","),
                    Line("field", "otp_reading_allowed",
                         bool_json(otp_reading_allowed(code)), ","),
                    Line("field", "warranty_intact",
                         bool_json(warranty_intact(code)), ",") >>
            ELSE << >>)
        \o << Line("str_field", "type", type_str(code), ","),
               Line("str_field", "revision", revision_str(code), ",") >>
        \o (IF new_style
            THEN << Line("str_field", "processor", processor_str(code), ",") >>
            ELSE << >>)
        \o << Line("str_field", "memory", CStr(physical_memory_str(mbytes, 8)), ","),
               Line("str_field", "manufacturer", manufacturer_str(code), ""),
               Line("brace", "}", "", "") >>

(***************************************************************************)
(* Parsing a code string, lines 504-527.                                   *)
(*                                                                         *)
(* A C string is a sequence of one-character strings.  An unsigned long    *)
(* is a sequence of long_bits / 4 hexadecimal digits, most significant     *)
(* first; long_bits is 32 or 64 depending on the build (line 509).         *)
(***************************************************************************)
\* isspace(c) in the C locale.
isspace(c) == c \in { " ", "\t", "\n", "\r", "\f" }

\* The value of c as a digit in base 16, -1 if it is not one.
HexDigitValue(c) ==
    CASE c = "0" -> 0 [] c = "1" -> 1 [] c = "2" -> 2 [] c = "3" -> 3
      [] c = "4" -> 4 [] c = "5" -> 5 [] c = "6" -> 6 [] c = "7" -> 7
      [] c = "8" -> 8 [] c = "9" -> 9
      [] c \in { "a", "A" } -> 10 [] c \in { "b", "B" } -> 11
      [] c \in { "c", "C" } -> 12 [] c \in { "d", "D" } -> 13
      [] c \in { "e", "E" } -> 14 [] c \in { "f", "F" } -> 15
      [] OTHER -> -1

\* The character of s at the 0-based offset i, "" at and after its end.
CharAt(s, i) == IF i < Len(s) THEN s[i + 1] ELSE ""

\* The offset of the first character at or after i that is not white space.
RECURSIVE SkipSpace(_, _)
SkipSpace(s, i) == IF isspace(CharAt(s, i)) THEN SkipSpace(s, i + 1) ELSE i

\* The offset after the hexadecimal digits that start at i.
RECURSIVE SkipHexDigits(_, _)
SkipHexDigits(s, i) ==
    IF HexDigitValue(CharAt(s, i)) >= 0 THEN SkipHexDigits(s, i + 1) ELSE i

\* A sequence of digit values without its leading zeros.
RECURSIVE StripZeros(_)
StripZeros(d) == IF d # << >> /\ d[1] = 0 THEN StripZeros(Tail(d)) ELSE d

\* n zero digits.
Zeros(n) == [i \in 1..n |-> 0]

\* The digits d plus one, modulo 16^Len(d).
RECURSIVE AddOne(_)
AddOne(d) ==
    IF d = << >> THEN << >>
    ELSE LET front == SubSeq(d, 1, Len(d) - 1)
             last  == d[Len(d)]
         IN  IF last < 15 THEN Append(front, last + 1)
             ELSE Append(AddOne(front), 0)

\* Unsigned negation: 2^long_bits - d, and 0 for 0.
Negate(d) == AddOne([i \in 1..Len(d) |-> 15 - d[i]])

\* strtoul(input, &endptr, 16) with an unsigned long of long_bits bits:
\* white space, an optional sign, an optional 0x or 0X that a digit follows,
\* then the longest run of hexadecimal digits.  endptr is the offset where
\* the conversion stopped (0 when nothing was converted); erange is
\* errno == ERANGE, set when the digits do not fit, with ULONG_MAX returned.
strtoul(input, long_bits) ==
    LET width    == long_bits \div 4
        sign_at  == SkipSpace(input, 0)
        negative == CharAt(input, sign_at) = "-"
        after_sign == IF CharAt(input, sign_at) \in { "-", "+" }
                      THEN sign_at + 1 ELSE sign_at
        prefixed == /\ CharAt(input, after_sign) = "0"
                    /\ CharAt(input, after_sign + 1) \in { "x", "X" }
                    /\ HexDigitValue(CharAt(input, after_sign + 2)) >= 0
        first    == IF prefixed THEN after_sign + 2 ELSE after_sign
        last     == SkipHexDigits(input, first)
        digits   == StripZeros([i \in 1..(last - first) |->
                                    HexDigitValue(input[first + i])])
        fits     == Len(digits) <= width
        magnitude == Zeros(width - Len(digits)) \o digits
    IN  IF last = first
        THEN [ value |-> Zeros(width), endptr |-> 0, erange |-> FALSE ]
        ELSE IF ~fits
        THEN [ value |-> [i \in 1..width |-> 15], endptr |-> last, erange |-> TRUE ]
        ELSE [ value |-> IF negative THEN Negate(magnitude) ELSE magnitude,
               endptr |-> last, erange |-> FALSE ]

\* (revcode_32) value: the low 32 bits.
ToRevcode(value) == Hex(SubSeq(value, Len(value) - 7, Len(value)))

\* value > 0xFFFFFFFF
Above32Bits(value) == \E i \in 1..(Len(value) - 8) : value[i] # 0

\* The result of str_to_revision: failed is TRUE when it calls
\* exit(EXIT_FAILURE) after writing message, otherwise value is returned.
str_to_revision(input, long_bits) ==
    LET parsed == strtoul(input, long_bits)
        quoted == "\"" \o CStr(input) \o "\""
        ok(v)  == [ failed |-> FALSE, message |-> "", value |-> v ]
        fail(m) == [ failed |-> TRUE, message |-> m, value |-> Word(0) ]
    IN  IF parsed.erange
        THEN fail("Revision code " \o quoted \o " too large or too small")
        ELSE IF parsed.endptr = 0
        THEN fail("Could not parse revision code " \o quoted)
        ELSE IF long_bits > 32 /\ Above32Bits(parsed.value)
        THEN fail("Revision code " \o quoted \o " larger than 32 bits")
        ELSE ok(ToRevcode(parsed.value))

(***************************************************************************)
(* State: one run of a renderer on one revision code (Spec), or one run of *)
(* process_rev_codes on the code arguments of the command line (SpecCli).  *)
(***************************************************************************)
VARIABLES
    revision_code,  \* the argument of print_revision_text / print_revision_json
    print_json,     \* the output mode process_rev_codes passes on
    pc,             \* "start", "done" (the renderer returned), "exit" (exit was called);
                    \* in process_rev_codes "loop" (at the loop test), "print" (at
                    \* the call of a renderer), "returned"
    exit_status,    \* EXIT_SUCCESS or EXIT_FAILURE once pc # "start"
    code,           \* the local `code`: the mapped revision code
    mega_bytes,     \* the value physical_memory_mbytes returned
    mem_read_index, \* the index at which mem_mbytes_map was read, -1 if not read
    str,            \* the local buffer char str[8]
    stdout,         \* the printf calls made, in order
    stderr,         \* the messages written to stderr
    codes,          \* the argument `codes` of process_rev_codes: C strings
    long_bits,      \* the width of unsigned long in the build, 32 or 64
    loop_index,     \* the loop variable `index` of process_rev_codes
    rev_code_str,   \* the local buffer char rev_code_str[32]
    calls           \* history: the calls made for each code, in order

vars == << revision_code, print_json, pc, exit_status, code, mega_bytes,
           mem_read_index, str, stdout, stderr,
           codes, long_bits, loop_index, rev_code_str, calls >>

\* The state of process_rev_codes, which a renderer leaves alone.
loop_vars == << codes, long_bits, loop_index, rev_code_str, calls >>

EXIT_SUCCESS == 0
EXIT_FAILURE == 1

\* A new-style code (bit 23 set) assembled from its fields.
NewStyleCode(flags, type, processor, manufacturer, revision, memory) ==
    BitOr(BitOr(BitOr(BitOr(BitOr(BitOr(
        Shl(Word(1), 23),
        flags),
        Shl(Word(type), 4)),
        Shl(Word(processor), 12)),
        Shl(Word(manufacturer), 16)),
        Shl(Word(revision), 0)),
        Shl(Word(memory), 20))

\* The words with bits only among the given positions.
BitsAmong(positions) ==
    { [i \in BitIdx |-> IF i \in on THEN 1 ELSE 0] : on \in SUBSET positions }

\* The revision codes explored.
RawCodes ==
    \* old-style values in and just beyond the table
    { Word(n) : n \in 0..MaxLegacyCode }
    \* bit 23 clear with high or middle bits set
    \cup { Hex(<<8,0,0,0,0,0,0,2>>), Hex(<<0,1,0,0,0,0,0,2>>),
           Hex(<<0,0,0,0,0,1,0,2>>), Hex(<<15,15,7,15,15,15,15,15>>),
           Hex(<<0,0,7,15,15,15,15,15>>) }
    \* every combination of the permission bits with every memory index
    \cup { NewStyleCode(f, 8, 2, 0, 2, m) : f \in BitsAmong({31, 30, 29, 25}), m \in 0..7 }
    \* unused bits
    \cup { NewStyleCode(f, 8, 2, 0, 2, 2) : f \in BitsAmong({28, 27, 26, 24}) }
    \* every index of each table, one field at a time
    \cup { NewStyleCode(Word(0), t, 0, 0, 0, 0) : t \in 0..255 }
    \cup { NewStyleCode(Word(0), 4, p, 0, 1, 2) : p \in 0..15 }
    \cup { NewStyleCode(Word(0), 4, 1, k, 1, 2) : k \in 0..15 }
    \cup { NewStyleCode(Word(0), 4, 1, 0, r, 2) : r \in 0..15 }
    \cup { Hex(<<15,15,15,15,15,15,15,15>>), Hex(<<0,0,10,0,2,0,8,2>>) }

Init ==
    /\ revision_code \in RawCodes
    /\ print_json \in BOOLEAN
    /\ pc = "start"
    /\ exit_status = EXIT_SUCCESS
    /\ code = Word(0)
    /\ mega_bytes = 0
    /\ mem_read_index = -1
    /\ str = << >>
    /\ stdout = << >>
    /\ stderr = << >>
    /\ codes = << >>
    /\ long_bits = 32
    /\ loop_index = 0
    /\ rev_code_str = << >>
    /\ calls = << >>

\* map_old_to_new called exit: nothing after the call runs.
ExitInMap(printed) ==
    /\ pc' = "exit"
    /\ exit_status' = EXIT_FAILURE
    /\ stdout' = stdout \o printed
    /\ stderr' = Append(stderr, "Invalid old style revision!")
    /\ UNCHANGED << code, mega_bytes, mem_read_index, str >>

\* print_revision_text(revision_code), lines 423-453.
PrintRevisionText ==
    /\ pc = "start"
    /\ ~print_json
    /\ LET mapped == map_old_to_new(revision_code)
       IN  IF mapped.failed
           THEN ExitInMap(text_header(revision_code))
           ELSE \E mbytes \in physical_memory_mbytes(mapped.code) :
                  /\ code' = mapped.code
                  /\ mega_bytes' = mbytes
                  /\ mem_read_index' = mem_mbytes_map_read(mapped.code)
                  /\ str' = physical_memory_str(mbytes, 8)
                  /\ stdout' = stdout \o text_header(revision_code)
                                      \o text_fields(mapped.code, mbytes)
                  /\ pc' = "done"
                  /\ exit_status' = EXIT_SUCCESS
                  /\ UNCHANGED stderr
    /\ UNCHANGED << revision_code, print_json >>
    /\ UNCHANGED loop_vars

\* print_revision_json(revision_code), lines 461-502.
PrintRevisionJson ==
    /\ pc = "start"
    /\ print_json
    /\ LET mapped == map_old_to_new(revision_code)
       IN  IF mapped.failed
           THEN ExitInMap(<< >>)
           ELSE \E mbytes \in physical_memory_mbytes(mapped.code) :
                  /\ code' = mapped.code
                  /\ mega_bytes' = mbytes
                  /\ mem_read_index' = mem_mbytes_map_read(mapped.code)
                  /\ str' = physical_memory_str(mbytes, 8)
                  /\ stdout' = stdout \o json_fields(revision_code, mapped.code, mbytes)
                  /\ pc' = "done"
                  /\ exit_status' = EXIT_SUCCESS
                  /\ UNCHANGED stderr
    /\ UNCHANGED << revision_code, print_json >>
    /\ UNCHANGED loop_vars

Next == PrintRevisionText \/ PrintRevisionJson

Spec == Init /\ [][Next]_vars

(***************************************************************************)
(* process_rev_codes, lines 529-552.                                       *)
(***************************************************************************)
\* The number of code arguments explored is 1..MaxCodes.
MaxCodes == 2

\* The C string of n characters '0'.
ZeroChars(n) == [i \in 1..n |-> "0"]

\* The code arguments explored.
InputStrings ==
    { << "2" >>,                                      \* old style, valid
      << "0", "x", "0", "0", "1", "0" >>,             \* old style, valid
      << "0" >>,                                      \* old style, invalid
      << "a", "0", "2", "0", "8", "2" >>,             \* new style
      << "0", "X", "E", "0", "2", "0", "8", "2" >>,   \* new style, memory index 6
      << "f", "f", "f", "f", "f", "f", "f", "f" >>,   \* the largest code
      << "z", "z" >>,                                 \* no digit
      << >>,                                          \* empty
      << "1", "2", "z", "z" >>,                       \* digits, then other characters
      << "0", "x" >>,                                 \* prefix without digits
      << " ", "+", "2" >>,                            \* white space and a sign
      << "-", "1" >>,                                 \* negative
      << "1", "0", "0", "0", "0", "0", "0", "0", "0" >>,  \* 2^32
      << "1" >> \o ZeroChars(16),                        \* 2^64
      ZeroChars(31) \o << "1", "2" >> }                   \* longer than the buffer

InitCli ==
    /\ \E n \in 1..MaxCodes : codes \in [1..n -> InputStrings]
    /\ print_json \in BOOLEAN
    /\ long_bits \in { 32, 64 }
    /\ pc = "loop"
    /\ loop_index = 0
    /\ exit_status = EXIT_SUCCESS
    /\ rev_code_str = << >>
    /\ revision_code = Word(0)
    /\ code = Word(0)
    /\ mega_bytes = 0
    /\ mem_read_index = -1
    /\ str = << >>
    /\ stdout = << >>
    /\ stderr = << >>
    /\ calls = << >>

\* A call made for the code at `index`.
Call(function) == [ index |-> loop_index, function |-> function ]

\* codes[index], line 541 (C arrays are indexed from 0).
code_at_from_end(argv, i) == argv[Len(argv) - i]

code_at(argv, i) == argv[i + 1]

\* The loop test of line 539.
loop_continues == loop_index < Len(codes) /\ exit_status = 0

\* Lines 540-543: copy the argument and parse it.
LoopStrToRevision ==
    /\ pc = "loop"
    /\ loop_continues
    /\ LET copied == strncpy(code_at(codes, loop_index), 32 - 1)
           parsed == str_to_revision(copied, long_bits)
       IN  /\ rev_code_str' = copied
           /\ calls' = Append(calls, Call("str_to_revision"))
           /\ IF parsed.failed
              THEN /\ stderr' = Append(stderr, parsed.message)
                   /\ pc' = "exit"
                   /\ exit_status' = EXIT_FAILURE
                   /\ UNCHANGED revision_code
              ELSE /\ revision_code' = parsed.value
                   /\ pc' = "print"
                   /\ UNCHANGED << stderr, exit_status >>
    /\ UNCHANGED << print_json, code, mega_bytes, mem_read_index, str, stdout,
                    codes, long_bits, loop_index >>

\* Lines 544-549 and the ++index of line 539: the renderer chosen by
\* print_json runs on revision_code; `header` is what it prints before it
\* calls map_old_to_new, `fields` what it prints after.
LoopPrint(json) ==
    /\ pc = "print"
    /\ LET mapped == map_old_to_new(revision_code)
           header == IF json THEN << >> ELSE text_header(revision_code)
           fields(c, m) == IF json THEN json_fields(revision_code, c, m)
                           ELSE text_fields(c, m)
       IN  IF mapped.failed
           THEN /\ stdout' = stdout \o header
                /\ stderr' = Append(stderr, "Invalid old style revision!")
                /\ calls' = Append(calls, Call("map_old_to_new"))
                /\ pc' = "exit"
                /\ exit_status' = EXIT_FAILURE
                /\ UNCHANGED << code, mega_bytes, mem_read_index, str, loop_index >>
           ELSE \E mbytes \in physical_memory_mbytes(mapped.code) :
                  /\ code' = mapped.code
                  /\ mega_bytes' = mbytes
                  /\ mem_read_index' = mem_mbytes_map_read(mapped.code)
                  /\ str' = physical_memory_str(mbytes, 8)
                  /\ stdout' = stdout \o header \o fields(mapped.code, mbytes)
                  /\ calls' = calls \o << Call("map_old_to_new"), Call("rendered") >>
                  /\ exit_status' = EXIT_SUCCESS
                  /\ loop_index' = loop_index + 1
                  /\ pc' = "loop"
                  /\ UNCHANGED stderr
    /\ UNCHANGED << revision_code, print_json, codes, long_bits, rev_code_str >>

LoopPrintText ==
    /\ ~print_json
    /\ LoopPrint(FALSE)

LoopPrintJson ==
    /\ print_json
    /\ LoopPrint(TRUE)

\* Line 551: the loop is over.
LoopReturn ==
    /\ pc = "loop"
    /\ ~loop_continues
    /\ pc' = "returned"
    /\ UNCHANGED << revision_code, print_json, exit_status, code, mega_bytes,
                    mem_read_index, str, stdout, stderr >>
    /\ UNCHANGED loop_vars

NextCli == LoopStrToRevision \/ LoopPrintText \/ LoopPrintJson \/ LoopReturn

SpecCli == InitCli /\ [][NextCli]_vars

(***************************************************************************)
(* Reading the rendered output.                                            *)
(***************************************************************************)
\* The field a label of the text renderer or a key of the JSON renderer names.
FieldOf(label) ==
    CASE label \in { "Revision code", "revision_code" }         -> "raw code"
      [] label \in { "Style", "style" }                         -> "style"
      [] label \in { "Overvoltage", "overvoltage_allowed" }     -> "overvoltage"
      [] label \in { "OTP Programming", "otp_programming_allowed" } -> "otp programming"
      [] label \in { "OTP Reading", "otp_reading_allowed" }     -> "otp reading"
      [] label \in { "Warranty", "warranty_intact" }            -> "warranty"
      [] label \in { "Type/Model", "type" }                     -> "type"
      [] label \in { "Revision", "revision" }                   -> "revision"
      [] label \in { "Processor/SOC", "processor" }             -> "processor"
      [] label \in { "Memory", "memory" }                       -> "memory"
      [] label \in { "Manufacturer", "manufacturer" }           -> "manufacturer"
      [] OTHER                                                  -> "other"

\* The lines of stdout that carry a field (the JSON braces do not).
FieldLines == SelectSeq(stdout, LAMBDA l : l.fmt # "brace")

\* The fields rendered, in the order of their printf calls.
FieldOrder == [i \in 1..Len(FieldLines) |-> FieldOf(FieldLines[i].label)]

Rendered(field) == \E i \in 1..Len(FieldLines) : FieldOrder[i] = field

\* The value rendered for a field that was rendered.
ValueOf(field) ==
    FieldLines[CHOOSE i \in 1..Len(FieldLines) : FieldOrder[i] = field].value

\* The value of the bit field of the given width at the given offset.
RECURSIVE BitField(_, _, _)
BitField(x, offset, width) ==
    IF width = 0 THEN 0
    ELSE x[offset] + 2 * BitField(x, offset + 1, width - 1)

\* The value of a word whose bit 31 is clear, or -1.
LegacyIndex(x) == IF x[31] = 1 THEN -1 ELSE BitField(x, 0, 31)

\* The old-style codes that are marked invalid inside the table.
InvalidInTable == { 0, 1, 10, 11, 12 }

(***************************************************************************)
(* C1                                                                      *)
(***************************************************************************)
\* C1: once a renderer has run, it ended in exit(EXIT_FAILURE) exactly when
\* bit 23 of the code is clear and the code is either outside the legacy
\* table or its entry is the sentinel; 0, 1, 0xa, 0xb, 0xc fail and no code
\* with bit 23 set fails, 0xFFFFFFFF included.
C1_FailsIffUnknownLegacy ==
    pc # "start" =>
        LET n == LegacyIndex(revision_code)
            in_table == n >= 0 /\ n < 22
        IN  /\ (pc = "exit") <=>
                   /\ revision_code[23] = 0
                   /\ \/ ~in_table
                      \/ old_revision_map[n + 1] = OLD_REV_NOT_VALID
            /\ (pc = "exit") <=> (exit_status = EXIT_FAILURE)
            /\ n \in InvalidInTable => pc = "exit"
            /\ revision_code[23] = 1 => pc = "done"
            /\ revision_code = OLD_REV_NOT_VALID => pc = "done"

C1_Witness ==
    /\ pc = "exit"
    /\ LegacyIndex(revision_code) = 12
    /\ stderr = << "Invalid old style revision!" >>

(***************************************************************************)
(* C2                                                                      *)
(***************************************************************************)
\* What the entries of old_revision_map name: the model, hardware revision,
\* memory and manufacturer macros or-ed together at each valid index.
documented_old_revision(n) ==
    LET D(type, revision, memory, manufacturer) ==
            [ type |-> type, revision |-> revision,
              memory |-> memory, manufacturer |-> manufacturer ]
    IN  CASE n \in { 2, 3 }   -> D("B", "1.0", "256MB", "Egoman")
          [] n = 4            -> D("B", "2.0", "256MB", "Sony UK")
          [] n = 5            -> D("B", "2.0", "256MB", "Qisda")
          [] n = 6            -> D("B", "2.0", "256MB", "Egoman")
          [] n = 7            -> D("A", "2.0", "256MB", "Egoman")
          [] n = 8            -> D("A", "2.0", "256MB", "Sony UK")
          [] n = 9            -> D("A", "2.0", "256MB", "Qisda")
          [] n \in { 13, 15 } -> D("B", "2.0", "512MB", "Egoman")
          [] n = 14           -> D("B", "2.0", "512MB", "Sony UK")
          [] n = 16           -> D("B+", "1.2", "512MB", "Sony UK")
          [] n = 17           -> D("CM1", "1.0", "512MB", "Sony UK")
          [] n = 18           -> D("A+", "1.1", "256MB", "Sony UK")
          [] n = 19           -> D("B+", "1.2", "512MB", "Embest")
          [] n = 20           -> D("CM1", "1.0", "512MB", "Embest")
          [] n = 21           -> D("A+", "1.1", "256MB", "Embest")

\* C2: every valid legacy index is rendered with the model, hardware
\* revision, memory size and manufacturer its table entry names, as old
\* style.
C2_LegacyAsDocumented ==
    (pc = "done" /\ revision_code[23] = 0) =>
        LET d == documented_old_revision(LegacyIndex(revision_code))
        IN  /\ ValueOf("style") \in { "Old", "old" }
            /\ ValueOf("type") = d.type
            /\ ValueOf("revision") = d.revision
            /\ ValueOf("memory") = d.memory
            /\ ValueOf("manufacturer") = d.manufacturer

(***************************************************************************)
(* C3                                                                      *)
(***************************************************************************)
\* The old-style values among those explored that map_old_to_new accepts.
AcceptedLegacy ==
    { n \in 0..MaxLegacyCode : ~map_old_to_new(Word(n)).failed }

\* C3 as stated: 19 legacy codes decode, and the invalid indices inside the
\* table are 0, 1, 10, 11 and 12.
C3_NineteenValid ==
    /\ Cardinality(AcceptedLegacy) = 19
    /\ (pc = "exit" /\ LegacyIndex(revision_code) \in 0..21)
           => LegacyIndex(revision_code) \in InvalidInTable
    /\ (pc = "done" /\ revision_code[23] = 0)
           => LegacyIndex(revision_code) \in (0..21) \ InvalidInTable

\* C3 amended: the table has 22 entries, 17 of them valid; the invalid
\* indices inside the table are 0, 1, 10, 11 and 12, so exactly 17 legacy
\* codes decode.
C3_SeventeenValid ==
    /\ Cardinality(AcceptedLegacy) = 17
    /\ AcceptedLegacy = (0..21) \ InvalidInTable
    /\ (pc = "exit" /\ LegacyIndex(revision_code) \in 0..21)
           => LegacyIndex(revision_code) \in InvalidInTable
    /\ (pc = "done" /\ revision_code[23] = 0)
           => LegacyIndex(revision_code) \in (0..21) \ InvalidInTable

C3_Witness ==
    /\ pc = "done"
    /\ LegacyIndex(revision_code) = 21
    /\ ValueOf("type") = "A+"

(***************************************************************************)
(* C4                                                                      *)
(***************************************************************************)
\* The three tiers: table entry, reserved index (-1 when the table declares
\* none), generic marker.
ThreeTier(table, reserved, fallback, index) ==
    IF index < Len(table) THEN table[index + 1]
    ELSE IF reserved # -1 /\ index = reserved THEN fallback
    ELSE "???"

\* C4: every rendered type, processor, manufacturer and hardware revision
\* is the three-tier resolution of its index; manufacturer 15 is "Qisda",
\* revision 15 is "2.0", and every other index past a table is "???".
C4_ThreeTierResolution ==
    pc = "done" =>
        LET t == BitField(code, 4, 8)
            p == BitField(code, 12, 4)
            m == BitField(code, 16, 4)
            r == BitField(code, 0, 4)
        IN  /\ ValueOf("type") = ThreeTier(type_map, -1, "", t)
            /\ ValueOf("manufacturer") = ThreeTier(manufacturer_map, 15, "Qisda", m)
            /\ ValueOf("revision") = ThreeTier(revision_map, 15, "2.0", r)
            /\ Rendered("processor") =>
                   ValueOf("processor") = ThreeTier(processor_map, -1, "", p)
            /\ Len(type_map) = 22 /\ Len(processor_map) = 4
            /\ t >= 22 => ValueOf("type") = "???"
            /\ (Rendered("processor") /\ p >= 4) => ValueOf("processor") = "???"
            /\ m = 15 => ValueOf("manufacturer") = "Qisda"
            /\ r = 15 => ValueOf("revision") = "2.0"
            /\ m \in 6..14 => ValueOf("manufacturer") = "???"
            /\ r \in 6..14 => ValueOf("revision") = "???"

C4_Witness ==
    /\ pc = "done"
    /\ revision_code[23] = 1
    /\ BitField(code, 16, 4) = 15
    /\ ValueOf("manufacturer") = "Qisda"

(***************************************************************************)
(* C5                                                                      *)
(***************************************************************************)
\* C5: the megabyte table is never read at an index >= its length; memory
\* indices 0..5 give 256 .. 8192 and indices 6 and 7 both give 0.
C5_StrictBoundsCheck ==
    pc = "done" =>
        LET index == BitField(code, 20, 3)
        IN  /\ mem_read_index < 6
            /\ index \in { 6, 7 } => mega_bytes = 0
            /\ index < 6 => mega_bytes = << 256, 512, 1024, 2048, 4096, 8192 >>[index + 1]

(***************************************************************************)
(* C6                                                                      *)
(***************************************************************************)
\* C6 as stated: a code whose memory index is 6 or 7 is rendered with an
\* empty memory string.
C6_ReservedMemoryEmpty ==
    (pc = "done" /\ BitField(code, 20, 3) \in { 6, 7 }) =>
        /\ str = << >>
        /\ ValueOf("memory") = ""

\* C6 amended: memory index 7 gives 0 MB, and 0 MB is rendered as the
\* numeric size "0MB", not as an empty string; for memory index 6 the
\* string is the rendering of the word read behind the table, "0MB" when
\* that word is 0 and empty only when it is 10000 GB or more.
C6_ReservedMemoryZeroMB ==
    (pc = "done" /\ BitField(code, 20, 3) \in { 6, 7 }) =>
        /\ BitField(code, 20, 3) = 7 => mega_bytes = 0
        /\ mega_bytes = 0 => (str = << "0", "M", "B" >> /\ ValueOf("memory") = "0MB")
        /\ (ValueOf("memory") = "") <=> (mega_bytes >= 10000 * 1024)

C6_Witness ==
    /\ pc = "done"
    /\ BitField(code, 20, 3) = 7
    /\ ValueOf("memory") = "0MB"

(***************************************************************************)
(* C7                                                                      *)
(***************************************************************************)
\* The number a sequence of decimal digits denotes, -1 if it is not one.
RECURSIVE DecimalValue(_)
DecimalValue(digits) ==
    IF digits = << >> THEN -1
    ELSE LET last == digits[Len(digits)]
             d == IF \E k \in 0..9 : DecDigit[k + 1] = last
                  THEN (CHOOSE k \in 0..9 : DecDigit[k + 1] = last) ELSE -1
             front == SubSeq(digits, 1, Len(digits) - 1)
         IN  IF d = -1 THEN -1
             ELSE IF front = << >> THEN d
             ELSE IF DecimalValue(front) = -1 THEN -1
             ELSE 10 * DecimalValue(front) + d

\* s is the number n in decimal without leading zeros, followed by unit.
NumberWithUnit(s, n, unit) ==
    /\ Len(s) >= 3
    /\ SubSeq(s, Len(s) - 1, Len(s)) = << unit, "B" >>
    /\ DecimalValue(SubSeq(s, 1, Len(s) - 2)) = n
    /\ (Len(s) > 3 => s[1] # "0")

\* C7: a megabyte count of 1024 or more is rendered as its whole gigabytes
\* followed by GB if those are at most 9999 and as the empty string
\* otherwise; a smaller count as the megabytes followed by MB; no padding.
\* Memory index 5 is "8GB", index 2 "1GB" and index 1 "512MB".
C7_MemoryFormatting ==
    pc = "done" =>
        /\ IF mega_bytes >= 1024
           THEN IF mega_bytes \div 1024 <= 9999
                THEN NumberWithUnit(str, mega_bytes \div 1024, "G")
                ELSE str = << >>
           ELSE NumberWithUnit(str, mega_bytes, "M")
        /\ ValueOf("memory") = CStr(str)
        /\ BitField(code, 20, 3) = 5 => ValueOf("memory") = "8GB"
        /\ BitField(code, 20, 3) = 2 => ValueOf("memory") = "1GB"
        /\ BitField(code, 20, 3) = 1 => ValueOf("memory") = "512MB"

C7_Witness ==
    /\ pc = "done"
    /\ BitField(code, 20, 3) = 5
    /\ mega_bytes = 8192
    /\ ValueOf("memory") = "8GB"

(***************************************************************************)
(* C8                                                                      *)
(***************************************************************************)
\* What is rendered for 0x00A02082 apart from the processor.
ScenarioB ==
    /\ ValueOf("style") \in { "New", "new" }
    /\ type_index(code) = 8 /\ ValueOf("type") = "3B"
    /\ physical_memory_index(code) = 2 /\ ValueOf("memory") = "1GB"
    /\ manufacturer_index(code) = 0 /\ ValueOf("manufacturer") = "Sony UK"
    /\ ValueOf("overvoltage") \in { "Allowed", "true" } <=> (revision_code[31] = 0)
    /\ ValueOf("otp programming") \in { "Allowed", "true" } <=> (revision_code[30] = 0)
    /\ ValueOf("otp reading") \in { "Allowed", "true" } <=> (revision_code[29] = 0)
    /\ ValueOf("warranty") \in { "Intact", "true" } <=> (revision_code[25] = 0)

\* C8 as stated: 0x00A02082 decodes to new style, type index 8 "3B", memory
\* index 2 "1GB", processor index 0, manufacturer index 0, each permission
\* from its own bit.
C8_ScenarioB_Processor0 ==
    (pc = "done" /\ revision_code = Hex(<<0, 0, 10, 0, 2, 0, 8, 2>>)) =>
        /\ ScenarioB
        /\ processor_index(code) = 0
        /\ ValueOf("processor") = "BCM2835"

\* C8 amended: as stated, except that the processor index of 0x00A02082
\* (bits 12-15) is 2, rendered "BCM2837".
C8_ScenarioB_Processor2 ==
    (pc = "done" /\ revision_code = Hex(<<0, 0, 10, 0, 2, 0, 8, 2>>)) =>
        /\ ScenarioB
        /\ processor_index(code) = 2
        /\ ValueOf("processor") = "BCM2837"

C8_Witness ==
    /\ pc = "done"
    /\ revision_code = Hex(<<0, 0, 10, 0, 2, 0, 8, 2>>)
    /\ ValueOf("type") = "3B"
    /\ Rendered("processor")

(***************************************************************************)
(* C9                                                                      *)
(***************************************************************************)
\* The flag does not change when any bit other than `bit` is inverted.
DependsOnlyOn(flag(_), bit, x) ==
    \A b \in BitIdx \ { bit } : flag(FlipBit(x, b)) = flag(x)

\* C9: each permission flag is true exactly when its own bit (31, 30, 29,
\* 25) is 0, whatever the other bits are, and is rendered "Allowed" or
\* "Intact" when the bit is 0, "Disallowed" or "Voided" when it is 1.
C9_InvertedPolarity ==
    /\ overvoltage_allowed(revision_code) <=> (revision_code[31] = 0)
    /\ otp_programming_allowed(revision_code) <=> (revision_code[30] = 0)
    /\ otp_reading_allowed(revision_code) <=> (revision_code[29] = 0)
    /\ warranty_intact(revision_code) <=> (revision_code[25] = 0)
    /\ DependsOnlyOn(overvoltage_allowed, 31, revision_code)
    /\ DependsOnlyOn(otp_programming_allowed, 30, revision_code)
    /\ DependsOnlyOn(otp_reading_allowed, 29, revision_code)
    /\ DependsOnlyOn(warranty_intact, 25, revision_code)
    /\ (pc = "done" /\ Rendered("overvoltage")) =>
           LET yes(word) == IF print_json THEN "true" ELSE word
               no(word)  == IF print_json THEN "false" ELSE word
           IN  /\ ValueOf("overvoltage") =
                      IF code[31] = 0 THEN yes("Allowed") ELSE no("Disallowed")
               /\ ValueOf("otp programming") =
                      IF code[30] = 0 THEN yes("Allowed") ELSE no("Disallowed")
               /\ ValueOf("otp reading") =
                      IF code[29] = 0 THEN yes("Allowed") ELSE no("Disallowed")
               /\ ValueOf("warranty") =
                      IF code[25] = 0 THEN yes("Intact") ELSE no("Voided")

C9_Witness ==
    /\ pc = "done"
    /\ ~print_json
    /\ revision_code[25] = 1 /\ revision_code[31] = 0
    /\ ValueOf("warranty") = "Voided"
    /\ ValueOf("overvoltage") = "Allowed"

(***************************************************************************)
(* C10                                                                     *)
(***************************************************************************)
\* C10: a renderer that returns has emitted raw code, style, the four
\* permissions, type, revision, processor, memory, manufacturer in this
\* order, the permissions and the processor exactly when bit 23 of the raw
\* code is set; an old-style code is reported as old style.
C10_FieldOrder ==
    pc = "done" =>
        LET new == revision_code[23] = 1
        IN  /\ FieldOrder =
                   << "raw code", "style" >>
                   \o (IF new THEN << "overvoltage", "otp programming",
                                      "otp reading", "warranty" >>
                       ELSE << >>)
                   \o << "type", "revision" >>
                   \o (IF new THEN << "processor" >> ELSE << >>)
                   \o << "memory", "manufacturer" >>
            /\ ValueOf("style") = IF print_json
                                  THEN (IF new THEN "new" ELSE "old")
                                  ELSE (IF new THEN "New" ELSE "Old")
            /\ ValueOf("raw code") = "0x" \o sprintf_X(revision_code)

C10_Witness ==
    /\ pc = "done"
    /\ print_json
    /\ revision_code[23] = 0
    /\ Len(FieldLines) = 6
    /\ ValueOf("style") = "old"

(***************************************************************************)
(* C11                                                                     *)
(***************************************************************************)
\* The header or revision_code line of every code that reached stdout.
RawCodeLines == SelectSeq(stdout, LAMBDA l : FieldOf(l.label) = "raw code")

\* The value str_to_revision returns for the k-th code argument.
ParsedArg(k) == str_to_revision(strncpy(codes[k], 31), long_bits)

\* The calls recorded are those of the codes 0, 1, ... in this order, each
\* code being parsed, then decoded, then rendered, before the next starts.
CallsInInputOrder ==
    /\ calls # << >> => (calls[1].index = 0 /\ calls[1].function = "str_to_revision")
    /\ \A i \in 1..(Len(calls) - 1) :
           LET a == calls[i]
               b == calls[i + 1]
           IN  \/ /\ a.function = "str_to_revision"
                  /\ b = [ index |-> a.index, function |-> "map_old_to_new" ]
               \/ /\ a.function = "map_old_to_new"
                  /\ b = [ index |-> a.index, function |-> "rendered" ]
               \/ /\ a.function = "rendered"
                  /\ b = [ index |-> a.index + 1, function |-> "str_to_revision" ]

\* What C11 says of a state.
C11_State ==
    /\ CallsInInputOrder
    \* the outputs are those of the first codes, in the order of the inputs
    /\ Len(RawCodeLines) <= Len(codes)
    /\ \A k \in 1..Len(RawCodeLines) :
           RawCodeLines[k].value = "0x" \o sprintf_X(ParsedArg(k).value)
    /\ \A c \in 1..Len(calls) : calls[c].index < Len(codes)
    \* a fatal error is the last thing that happens
    /\ stderr # << >> =>
           /\ pc = "exit"
           /\ Len(stderr) = 1
           /\ calls[Len(calls)] \in
                  { [ index |-> loop_index, function |-> "str_to_revision" ],
                    [ index |-> loop_index, function |-> "map_old_to_new" ] }
           /\ \A c \in 1..Len(calls) : calls[c].index <= loop_index
           /\ Len(RawCodeLines) <= loop_index + 1
    \* without a fatal error every code is processed
    /\ pc = "returned" => (loop_index = Len(codes) /\ Len(RawCodeLines) = Len(codes))

\* What C11 says of a step: nothing follows a fatal error, and a step adds
\* to the calls and to the output without changing what is there.
C11_Step ==
    /\ pc # "exit"
    /\ stderr = << >>
    /\ Len(calls') >= Len(calls) /\ SubSeq(calls', 1, Len(calls)) = calls
    /\ Len(stdout') >= Len(stdout) /\ SubSeq(stdout', 1, Len(stdout)) = stdout
    /\ loop_index' \in { loop_index, loop_index + 1 }

\* C11: the codes of one invocation are parsed, decoded and rendered one
\* after the other in input order, the outputs appear in that order, and
\* after the first fatal error no later code is parsed, decoded or rendered.
C11_SequentialAbort == [] C11_State /\ [][C11_Step]_vars

C11_Witness ==
    /\ pc = "exit"
    /\ Len(codes) = 2
    /\ loop_index = 0
    /\ ~ParsedArg(2).failed
    /\ \A c \in 1..Len(calls) : calls[c].index = 0

(***************************************************************************)
(* C12                                                                     *)
(***************************************************************************)
\* The last line of every complete rendering that reached stdout.
ManufacturerLines ==
    SelectSeq(stdout, LAMBDA l : FieldOf(l.label) = "manufacturer")

\* The invocation ended in the fatal error of map_old_to_new.
FailedInDecoding == pc = "exit" /\ stderr = << "Invalid old style revision!" >>

\* C12 as stated: an invocation that ends in a fatal error has emitted no
\* rendered output at all.
C12_NoOutputOnFatalError == pc = "exit" => stdout = << >>

\* C12 amended: an invocation that ends in a fatal error has emitted the
\* complete rendering of every code before the failing one and nothing of
\* the codes after it; of the failing code it has emitted nothing, except
\* the header line in text mode when the code failed in decoding.
C12_OutputUpToFatalError ==
    pc = "exit" =>
        /\ exit_status = EXIT_FAILURE
        /\ Len(ManufacturerLines) = loop_index
        /\ IF FailedInDecoding /\ ~print_json
           THEN /\ Len(RawCodeLines) = loop_index + 1
                /\ stdout[Len(stdout)].fmt = "header"
                /\ stdout[Len(stdout)].value = "0x" \o sprintf_X(revision_code)
           ELSE /\ Len(RawCodeLines) = loop_index
                /\ loop_index = 0 => stdout = << >>
                /\ loop_index > 0 =>
                       stdout[Len(stdout)].label =
                           IF print_json THEN "}" ELSE "Manufacturer"

C12_Witness ==
    /\ FailedInDecoding
    /\ ~print_json
    /\ loop_index = 1
    /\ Len(RawCodeLines) = 2
    /\ Len(ManufacturerLines) = 1

(***************************************************************************)
(* C13                                                                     *)
(***************************************************************************)
\* A base-16 unsigned integer: an optional 0x or 0X, then hexadecimal digits
\* and nothing else.  valid tells whether s is one of at most 32 bits, value
\* is the 32-bit value it then denotes.
Denotes(s) ==
    LET prefixed == Len(s) >= 2 /\ s[1] = "0" /\ s[2] \in { "x", "X" }
        body   == IF prefixed THEN SubSeq(s, 3, Len(s)) ELSE s
        is_hex == body # << >> /\ \A i \in 1..Len(body) : HexDigitValue(body[i]) >= 0
        digits == IF is_hex
                  THEN StripZeros([i \in 1..Len(body) |-> HexDigitValue(body[i])])
                  ELSE << >>
        valid  == is_hex /\ Len(digits) <= 8
    IN  [ valid |-> valid,
          value |-> IF valid THEN Hex(Zeros(8 - Len(digits)) \o digits) ELSE Word(0) ]

\* The code argument the loop is at.
CurrentArg == codes[loop_index + 1]

\* C13: str_to_revision fails for every argument that is not a base-16
\* unsigned integer of at most 32 bits, so that none is decoded, and returns
\* for every other argument the value it denotes.
C13_ParseStrict ==
    /\ pc = "print" =>
           /\ Denotes(CurrentArg).valid
           /\ revision_code = Denotes(CurrentArg).value
    /\ \A c \in 1..Len(calls) :
           calls[c].function = "map_old_to_new" =>
               Denotes(codes[calls[c].index + 1]).valid
    /\ (pc = "exit" /\ calls[Len(calls)].function = "str_to_revision") =>
           ~Denotes(CurrentArg).valid

====
